---- MODULE Spec2Model ----
(***************************************************************************)
(* Model of the authenticated-request / token-refresh pipeline of the      *)
(* storefront client (apiClient: axios instance "api" with a request       *)
(* interceptor and a response interceptor, the module-level refresh state  *)
(* isRefreshing / refreshPromise / subscribers, and tokenStore), together  *)
(* with the login / logout entry points of authService that write the      *)
(* token store.                                                            *)
(*                                                                         *)
(* Scheduling: JavaScript event loop.  A network completion is one         *)
(* macrotask; the promise reactions it triggers (then / catch / finally,   *)
(* the interceptor chain of a replay) run as microtasks before the next    *)
(* network completion is delivered, so each action below is one network    *)
(* completion (or one UI call) together with all the reactions it causes.  *)
(* The end of a successful refresh is shown at the grain of its reactions:  *)
(* the then-callback (store the token, flush the queue) and the finally-    *)
(* callback (mark idle) are two steps, and no task runs between them.       *)
(*                                                                         *)
(* The pages that work beside the pipeline have specifications of their     *)
(* own over the same variables: StoreSpec (tokenStore and the two logins),  *)
(* LoopSpec (a server answering 401 to everything), CheckoutSpec, CartSpec  *)
(* and UploadSpec.                                                          *)
(***************************************************************************)
EXTENDS Integers, Sequences, FiniteSets, TLC

\* ---- bounds ----
\* inputs of the environment in one behaviour: original requests issued by
\* the UI, logins, and 401 answers of the server to business requests
MaxEvents == 5

\* the same budget for the behaviours checked for liveness
MaxEventsFair == 4

\* token values written to the token store directly or returned by a login
MaxTok == 2

\* original requests issued against the server that answers 401 to all
MaxLoopRequests == 2

\* events (user input, network completions) on one Checkout page
MaxCheckoutEvents == 6

\* largest cart total and item count a cart answer may hold
MaxTotal == 2

\* quantity changes and removals made on one Cart page
MaxCartOps == 2

\* the stock of a product whose stock is given
MaxQty == 2

\* events on one Upload page
MaxUploadEvents == 5

\* null / undefined / absent header
None == 0

\* the empty string
EmptyStr == 0 - 1

\* a value that passes if (v): a non-empty string
Truthy(v) == v \notin {None, EmptyStr}

VARIABLES
    tokenStore,       \* [access, refresh]: localStorage "access" / "refresh"
    isRefreshing,     \* module flag
    refreshPromise,   \* None, or the number of the refresh cycle whose promise it holds
    subscribers,      \* sequence of callbacks; a callback is named by the send whose handler made it
    sends,            \* every call api(config) made so far, in order of creation
    cycles,           \* every refresh network call issued so far, in order
    started,          \* original requests issued by the UI
    issued401,        \* 401 answers given by the server so far
    logins,           \* successful logins since the page was loaded
    nextTok,          \* next access token the server issues (tokens are fresh)
    failedSinceLogin, \* a refresh has failed and no login has stored credentials since
    budget,           \* inputs the environment may still make
    loggedOut,        \* logout has run and no login has completed since
    checkout,         \* the state of the mounted Checkout component
    cartPage,         \* the state of the mounted Cart component, with the cart the server holds
    uploadPage,       \* the state of the mounted UploadPage component
    lastOp,           \* the last direct operation on the token store, with its argument and the store before it
    finallyPending    \* None, or the cycle whose then-callback ran and whose finally-callback is due

vars == <<cartPage, uploadPage, checkout, lastOp, tokenStore, isRefreshing, refreshPromise, subscribers, sends, cycles,
          started, issued401, logins, nextTok, failedSinceLogin, budget,
          finallyPending, loggedOut>>

\* the state outside the request pipeline
pageVars == <<lastOp, checkout, cartPage, uploadPage>>

\* the token store and the log of the operations on it
storeVars == <<tokenStore, lastOp>>

\* the state of the request pipeline apart from the token store
pipelineVars == <<isRefreshing, refreshPromise, subscribers, sends, cycles,
                  started, issued401, logins, nextTok, failedSinceLogin,
                  budget, finallyPending, loggedOut>>

\* the environment may still make an input
MoreEvents == budget > 0

\* the idle marking of lines 82-85 put off to a task of its own
FinallyInSameTask_Deferred == FALSE

\* lines 71-85: finally is chained on the promise of then, so its callback
\* runs among the reactions of the refresh response, before any other task
FinallyInSameTask == TRUE

\* a task (a network completion, a UI call) may start: no reaction is due
TaskMayRun == FinallyInSameTask => finallyPending = None

\* ---- tokenStore ----
EmptyStore == [access |-> None, refresh |-> None]

\* lines 19-21 and 26-28: localStorage.getItem
getAccess(store) == store.access
getRefresh(store) == store.refresh

\* lines 29-32: a falsy value removes the item
setRefresh(store, v) ==
    [store EXCEPT !.refresh = IF Truthy(v) THEN v ELSE None]

\* clear() removing the access token only
clear_AccessOnly(store) == [store EXCEPT !.access = None]

\* lines 33-36: this.access = null; this.refresh = null
clear(store) == [[store EXCEPT !.access = None] EXCEPT !.refresh = None]

\* the access token written nowhere
setAccess_Dropped(store, v) == store

\* lines 22-25: a falsy value removes the item
setAccess(store, v) ==
    [store EXCEPT !.access = IF Truthy(v) THEN v ELSE None]

\* the interceptor leaving the headers as they are
RequestInterceptor_Off(store, hdr) == hdr

\* ---- request interceptor: attach Authorization from the store ----
RequestInterceptor(store, hdr) ==
    IF store.access # None THEN store.access ELSE hdr

\* ---- promises ----
\* A send's promise is pending until its out field is set.  A promise that
\* was resolved with another promise (st = "replayed") is locked in to it.
RECURSIVE ChainOf(_, _)
ChainOf(sq, s) ==
    {s} \cup (IF sq[s].parent # None /\ sq[s].linked
              THEN ChainOf(sq, sq[s].parent) ELSE {})

ChainsOf(sq, S) == UNION {ChainOf(sq, s) : s \in S}

\* settle the promises S (and what is locked in to them) with outcome o
PromiseSettle(sq, S, o) ==
    [i \in 1..Len(sq) |->
        IF i \in ChainsOf(sq, S) /\ sq[i].out = "pending"
        THEN [sq[i] EXCEPT !.out = o, !.st = "done", !.settles = @ + 1]
        ELSE sq[i]]

\* History fields of a send (they influence no action): via, the branch of
\* the response interceptor that handled its response; settles, how often
\* its promise was settled; sentCyc, the cycle whose callback sent it;
\* epoch, the number of refresh calls issued when it was sent; seen, the
\* number of refresh calls completed when its 401 was handled; hand, the
\* cycle in flight when it was queued; resp, the answer it received; enq,
\* the number of 401 answers given when it was put in the wait queue.
NewSend(r, hdr, retried, parent, linked) ==
    [req |-> r, hdr |-> hdr, retried |-> retried, parent |-> parent,
     linked |-> linked, st |-> "inflight", out |-> "pending", cyc |-> None,
     via |-> "none", settles |-> 0, sentCyc |-> None,
     epoch |-> Len(cycles), seen |-> None, hand |-> None,
     resp |-> "none", enq |-> None]

\* the module is loaded: the refresh state is idle, and localStorage is empty
\* or still holds the tokens of a session stored before the page was loaded
StoredSession == [access |-> 1, refresh |-> 1]

Loaded ==
    /\ tokenStore \in {EmptyStore, StoredSession}
    /\ isRefreshing = FALSE
    /\ refreshPromise = None
    /\ subscribers = <<>>
    /\ sends = <<>>
    /\ cycles = <<>>
    /\ started = 0
    /\ issued401 = 0
    /\ logins = 0
    /\ nextTok = 2
    /\ failedSinceLogin = FALSE
    /\ finallyPending = None
    /\ loggedOut = FALSE

NoOp == [op |-> "none", v |-> None, r |-> None, before |-> EmptyStore]

\* Checkout as mounted: lines 505-520, the cart not loaded yet
Mounted(clientId) ==
    [mounted |-> TRUE, clientId |-> clientId, method |-> "cod",
     paid |-> FALSE, placing |-> FALSE, cartLoaded |-> FALSE, items |-> 0,
     total |-> 0, addrOk |-> TRUE, sdkPending |-> FALSE, buttons |-> FALSE,
     capturing |-> 0, capturedSince |-> FALSE, orders |-> <<>>,
     inflight |-> 0, accepted |-> 0, clicks |-> 0,
     left |-> MaxCheckoutEvents]

\* ---- numbers of the Cart page, held in halves: n stands for n / 2 ----
One == 2

\* Number(x) of a text that is no number
NaN == 0 - 99

\* the items of the cart
CartItems == {1, 2}

\* Cart with the cart loaded: every item with quantity 1, shown as the
\* server holds it; stock[i] is product_details.quantity (0: not given)
CartShown(stock) ==
    [display |-> [i \in CartItems |-> One],
     server |-> [i \in CartItems |-> One],
     maxQty |-> stock, ops |-> <<>>, error |-> FALSE, left |-> MaxCartOps]

\* UploadPage not mounted
NoUpload == [mounted |-> FALSE]

\* nothing but the pipeline has acted
PagesIdle ==
    /\ lastOp = NoOp
    /\ checkout = Mounted(TRUE)
    /\ cartPage = CartShown([i \in CartItems |-> 0])
    /\ uploadPage = NoUpload

Init == Loaded /\ PagesIdle /\ budget = MaxEvents

InitFair == Loaded /\ PagesIdle /\ budget = MaxEventsFair

\* authService.login, lines 12-14: both setters, whatever the response holds
loginStore(store, access, refresh) ==
    setRefresh(setAccess(store, access), refresh)

\* Login.onSubmit, lines 44-46: each token is written only if it is present
onSubmitStore(store, access, refresh) ==
    [access |-> IF Truthy(access) THEN access ELSE store.access,
     refresh |-> IF Truthy(refresh) THEN refresh ELSE store.refresh]

\* ---- authService.login / logout ----
Login ==
    /\ TaskMayRun
    /\ MoreEvents
    /\ budget' = budget - 1
    /\ tokenStore' = loginStore(tokenStore, nextTok, logins + 2)
    /\ nextTok' = nextTok + 1
    /\ logins' = logins + 1
    /\ failedSinceLogin' = FALSE
    /\ loggedOut' = FALSE
    /\ UNCHANGED pageVars
    /\ UNCHANGED <<finallyPending, isRefreshing, refreshPromise, subscribers, sends, cycles,
                   started, issued401>>

Logout ==
    /\ TaskMayRun
    /\ tokenStore' = clear(tokenStore)
    /\ loggedOut' = TRUE
    /\ UNCHANGED pageVars
    /\ UNCHANGED <<finallyPending, budget, isRefreshing, refreshPromise, subscribers, sends, cycles,
                   started, issued401, logins, nextTok, failedSinceLogin>>

\* ---- a UI component calls api(config) ----
StartRequest ==
    /\ TaskMayRun
    /\ MoreEvents
    /\ budget' = budget - 1
    /\ started' = started + 1
    /\ sends' = Append(sends,
                  NewSend(started + 1, RequestInterceptor(tokenStore, None),
                          FALSE, None, FALSE))
    /\ UNCHANGED pageVars
    /\ UNCHANGED <<loggedOut, finallyPending, tokenStore, isRefreshing, refreshPromise, subscribers,
                   cycles, issued401, logins, nextTok, failedSinceLogin>>

Sends == 1..Len(sends)
Cycles == 1..Len(cycles)

CyclesDone == Cardinality({c \in 1..Len(cycles) : cycles[c].st # "inflight"})

InFlight == {s \in 1..Len(sends) : sends[s].st = "inflight"}

\* ---- response interceptor, success handler: (res) => res ----
OnFulfilled(res) == res

\* the error returned instead of rejected: the caller's promise resolves
OnRejected_Swallowed(error) == "ok"

\* line 98: return Promise.reject(error)
OnRejected(error) == error

ResponseOk(s) ==
    /\ TaskMayRun
    /\ s \in InFlight
    /\ sends' = PromiseSettle([sends EXCEPT ![s].via = "pass",
                                             ![s].resp = "2xx"],
                              {s}, OnFulfilled("ok"))
    /\ UNCHANGED pageVars
    /\ UNCHANGED <<loggedOut, finallyPending, budget, tokenStore, isRefreshing, refreshPromise, subscribers,
                   cycles, started, issued401, logins, nextTok, failedSinceLogin>>

\* ---- response interceptor, error handler, status # 401 or no response ----
ResponseError(s) ==
    /\ TaskMayRun
    /\ s \in InFlight
    /\ sends' = PromiseSettle([sends EXCEPT ![s].via = "pass",
                                             ![s].resp = "err"],
                              {s}, OnRejected("eOther"))
    /\ UNCHANGED pageVars
    /\ UNCHANGED <<loggedOut, finallyPending, budget, tokenStore, isRefreshing, refreshPromise, subscribers,
                   cycles, started, issued401, logins, nextTok, failedSinceLogin>>

\* ---- response interceptor, error handler, status = 401 ----
\* the __isRetryRequest mark not looked at
NotRetried_Ignored(s) == TRUE

\* line 58: the recovery path is entered only by a request not marked retried
NotRetried(s) == ~sends[s].retried

\* 401 on a request already marked __isRetryRequest: Promise.reject(error)
RetryExhausted(s) ==
    /\ TaskMayRun
    /\ s \in InFlight
    /\ ~NotRetried(s)
    /\ issued401' = issued401 + 1
    /\ sends' = PromiseSettle([sends EXCEPT ![s].via = "exhausted",
                                             ![s].resp = "401",
                                             ![s].seen = CyclesDone],
                              {s}, OnRejected("e401"))
    /\ UNCHANGED pageVars
    /\ UNCHANGED <<loggedOut, finallyPending, tokenStore, isRefreshing, refreshPromise, subscribers,
                   cycles, started, logins, nextTok, failedSinceLogin>>

\* the server answers 401, one of the inputs of the environment
ResponseRetryExhausted(s) ==
    /\ MoreEvents
    /\ budget' = budget - 1
    /\ RetryExhausted(s)

\* the branch of lines 60-63 without tokenStore.clear()
StoreAfterNoRefresh_Kept(store) == store

\* lines 59-63: no refresh token stored
StoreAfterNoRefresh(store) == clear(store)

NoRefreshToken(s) ==
    /\ TaskMayRun
    /\ s \in InFlight
    /\ NotRetried(s)
    /\ tokenStore.refresh = None
    /\ issued401' = issued401 + 1
    /\ tokenStore' = StoreAfterNoRefresh(tokenStore)
    /\ sends' = PromiseSettle([sends EXCEPT ![s].via = "noRefresh",
                                             ![s].resp = "401",
                                             ![s].seen = CyclesDone], {s}, "e401")
    /\ UNCHANGED pageVars
    /\ UNCHANGED <<loggedOut, finallyPending, isRefreshing, refreshPromise, subscribers,
                   cycles, started, logins, nextTok, failedSinceLogin>>

ResponseNoRefreshToken(s) ==
    /\ MoreEvents
    /\ budget' = budget - 1
    /\ NoRefreshToken(s)

\* the guard of line 65 left out: every 401 starts a refresh call
CanStartRefresh_Unguarded == TRUE

\* line 65: if (!isRefreshing)
CanStartRefresh == ~isRefreshing

\* the request that starts the cycle left unmarked
MarkRetried_Never(start, old) == old

\* line 67: only the request that starts the cycle is marked
MarkRetried(start, old) == IF start THEN TRUE ELSE old

\* the callback put at the head of the queue
addSubscriber_Prepend(subs, cb) == <<cb>> \o subs

\* lines 13-15
addSubscriber(subs, cb) == Append(subs, cb)

\* line 94 left out: the waiter does not listen for the refresh failure
CatchTarget_Detached(rp) == None

\* line 94: if (refreshPromise) refreshPromise.catch(reject)
CatchTarget(rp) == rp

\* lines 65-95: start a refresh cycle if none is running, then queue
ExpiredAccess(s) ==
    /\ TaskMayRun
    /\ s \in InFlight
    /\ NotRetried(s)
    /\ tokenStore.refresh # None
    /\ issued401' = issued401 + 1
    /\ LET start == CanStartRefresh
           rp == IF start THEN Len(cycles) + 1 ELSE refreshPromise
       IN /\ isRefreshing' = (IF start THEN TRUE ELSE isRefreshing)
          /\ refreshPromise' = rp
          /\ cycles' = IF start
                       THEN Append(cycles, [st |-> "inflight",
                                            refresh |-> tokenStore.refresh,
                                            newAccess |-> None,
                                            answer |-> "none",
                                            session |-> logins,
                                            by |-> s])
                       ELSE cycles
          /\ sends' = [sends EXCEPT ![s].retried = MarkRetried(start, @),
                                    ![s].st = "queued",
                                    ![s].cyc = CatchTarget(rp),
                                    ![s].via = IF start THEN "initiator" ELSE "queued",
                                    ![s].seen = CyclesDone,
                                    ![s].resp = "401",
                                    ![s].enq = issued401 + 1,
                                    ![s].hand = Len(cycles')]
          /\ subscribers' = addSubscriber(subscribers, s)
    /\ UNCHANGED pageVars
    /\ UNCHANGED <<loggedOut, finallyPending, tokenStore, started, logins, nextTok, failedSinceLogin>>

ResponseExpiredAccess(s) ==
    /\ MoreEvents
    /\ budget' = budget - 1
    /\ ExpiredAccess(s)

\* ---- the refresh network call completes ----
RefreshInFlight == {c \in 1..Len(cycles) : cycles[c].st = "inflight"}

Range(f) == {f[i] : i \in DOMAIN f}

\* a subscriber's promise can still be resolved by its callback
Resolvable(sq, p) == sq[p].out = "pending" /\ sq[p].st = "queued"

\* the replay sent with the headers the request already had
ReplayHeader_Stale(store, newAccess, oldHdr) == oldHdr

\* lines 90-93 then the request interceptor of api(original)
ReplayHeader(store, newAccess, oldHdr) == RequestInterceptor(store, newAccess)

\* lines 9-12 with the callback of lines 90-93: every callback re-sends its
\* request and resolves its promise with the replay
onRefreshed(sq, subs, store, newAccess, c) ==
    [i \in 1..Len(sq) |->
        IF i \in Range(subs) /\ Resolvable(sq, i)
        THEN [sq[i] EXCEPT !.st = "replayed"] ELSE sq[i]]
    \o
    [k \in 1..Len(subs) |->
        [NewSend(sq[subs[k]].req,
                 ReplayHeader(store, newAccess, sq[subs[k]].hdr),
                 sq[subs[k]].retried, subs[k], Resolvable(sq, subs[k]))
         EXCEPT !.sentCyc = c]]

\* line 11 (success) / nothing (failure)
SubscribersAfterSuccess(subs) == <<>>
SubscribersAfterFailure(subs) == subs

\* lines 71-77: the then-callback of the refresh call
RefreshSuccess(c) ==
    /\ TaskMayRun
    /\ c \in RefreshInFlight
    /\ tokenStore' = setAccess(tokenStore, nextTok)
    /\ nextTok' = nextTok + 1
    /\ sends' = onRefreshed(sends, subscribers, tokenStore', nextTok, c)
    /\ subscribers' = SubscribersAfterSuccess(subscribers)
    /\ cycles' = [cycles EXCEPT ![c].st = "ok", ![c].newAccess = nextTok,
                                ![c].answer = "access"]
    /\ finallyPending' = c
    /\ UNCHANGED pageVars
    /\ UNCHANGED <<loggedOut, isRefreshing, refreshPromise, budget, started, issued401,
                   logins, failedSinceLogin>>

\* the finally-callback leaving the promise in place
PromiseAfterFinally_Kept(rp) == rp

\* line 84: refreshPromise = null
PromiseAfterFinally(rp) == None

\* lines 82-85: the finally-callback after a successful refresh
RefreshFinally ==
    /\ finallyPending # None
    /\ isRefreshing' = FALSE
    /\ refreshPromise' = PromiseAfterFinally(refreshPromise)
    /\ finallyPending' = None
    /\ UNCHANGED pageVars
    /\ UNCHANGED <<loggedOut, tokenStore, subscribers, sends, cycles, started, issued401,
                   logins, nextTok, failedSinceLogin, budget>>

\* promises that attached reject to the promise of cycle c
Catchers(sq, c) == {s \in 1..Len(sq) : sq[s].cyc = c /\ sq[s].st = "queued"}

\* the waiters rejected with their own 401 error instead of the refresh error
WaiterError_Original401(e) == "e401"

\* line 80: throw e; line 94: reject receives the refresh error
WaiterError(e) == e

\* the catch of lines 78-81 removing the access token only
StoreAfterRefreshFailure_AccessOnly(store) == [store EXCEPT !.access = None]

\* the catch of lines 78-81 without tokenStore.clear()
StoreAfterRefreshFailure_Kept(store) == store

\* lines 78-81
StoreAfterRefreshFailure(store) == clear(store)

\* lines 78-85 and 94: the catch- and finally-callbacks of a failed refresh
\* and the rejections of the waiters; answer (a history field) is what the
\* refresh endpoint answered
RefreshRejected(c, e, answer) ==
    /\ TaskMayRun
    /\ c \in RefreshInFlight
    /\ tokenStore' = StoreAfterRefreshFailure(tokenStore)
    /\ sends' = PromiseSettle(sends, Catchers(sends, c), WaiterError(e))
    /\ subscribers' = SubscribersAfterFailure(subscribers)
    /\ cycles' = [cycles EXCEPT ![c].st = e, ![c].answer = answer]
    /\ isRefreshing' = FALSE
    /\ refreshPromise' = PromiseAfterFinally(refreshPromise)
    /\ failedSinceLogin' = TRUE
    /\ UNCHANGED pageVars
    /\ UNCHANGED <<loggedOut, finallyPending, budget, started, issued401, logins, nextTok>>

\* the refresh call fails: network error or rejection by the server
RefreshFail(c) == RefreshRejected(c, "eRefresh", "failure")

\* the missing token reported as any other refresh failure
NoAccessError_Generic == "eRefresh"

\* line 73: new Error("No access token in refresh response")
NoAccessError == "eNoAccess"

\* line 73: the refresh call succeeds but the response has no access token
RefreshNoAccess(c) == RefreshRejected(c, NoAccessError, "noAccess")

Next ==
    \/ Login
    \/ Logout
    \/ StartRequest
    \/ \E s \in 1..Len(sends) : ResponseOk(s)
    \/ \E s \in 1..Len(sends) : ResponseError(s)
    \/ \E s \in 1..Len(sends) : ResponseRetryExhausted(s)
    \/ \E s \in 1..Len(sends) : ResponseNoRefreshToken(s)
    \/ \E s \in 1..Len(sends) : ResponseExpiredAccess(s)
    \/ \E c \in 1..Len(cycles) : RefreshSuccess(c)
    \/ RefreshFinally
    \/ \E c \in 1..Len(cycles) : RefreshFail(c)
    \/ \E c \in 1..Len(cycles) : RefreshNoAccess(c)

Spec == Init /\ [][Next]_vars

\* ---- fairness: every network call that was sent is eventually answered ----
MaxSends == MaxEvents

Responds(s) ==
    \/ ResponseOk(s)
    \/ ResponseError(s)
    \/ ResponseRetryExhausted(s)
    \/ ResponseNoRefreshToken(s)
    \/ ResponseExpiredAccess(s)

RefreshCompletes(c) == RefreshSuccess(c) \/ RefreshFail(c) \/ RefreshNoAccess(c)

FairSpec ==
    /\ InitFair /\ [][Next]_vars
    /\ \A s \in 1..MaxSends : WF_vars(s \in Sends /\ Responds(s))
    /\ \A c \in 1..MaxEvents : WF_vars(c \in Cycles /\ RefreshCompletes(c))
    /\ WF_vars(RefreshFinally)

\* ---- a server that answers every business request with 401, and a
\* refresh endpoint that always succeeds ----
LoopInit == Loaded /\ PagesIdle /\ budget = MaxLoopRequests

\* more 401 answers than the requests can receive if every refresh cycle
\* retires the request that started it
Loop401Cap == MaxLoopRequests * MaxLoopRequests + MaxLoopRequests

\* the 401 answer to send s, handled by whichever branch applies
Always401(s) ==
    /\ issued401 < Loop401Cap
    /\ RetryExhausted(s) \/ NoRefreshToken(s) \/ ExpiredAccess(s)
    /\ UNCHANGED budget

LoopNext ==
    \/ StartRequest
    \/ \E s \in 1..Len(sends) : Always401(s)
    \/ \E c \in 1..Len(cycles) : RefreshSuccess(c)
    \/ RefreshFinally

LoopSends == Loop401Cap

LoopSpec ==
    /\ LoopInit /\ [][LoopNext]_vars
    /\ \A s \in 1..LoopSends : WF_vars(s \in Sends /\ Always401(s))
    /\ \A c \in 1..MaxLoopRequests : WF_vars(c \in Cycles /\ RefreshSuccess(c))
    /\ WF_vars(RefreshFinally)

\* ---- the token store used directly, and the two login entry points ----
\* values a caller may write: null, the empty string, a token
Written == {None, EmptyStr} \cup (1..MaxTok)

\* tokens a 2xx answer of the token endpoint may hold (None: field absent)
Returned == {None} \cup (1..MaxTok)

StoreInit == Loaded /\ PagesIdle /\ budget = 0

\* tokenStore.access = v
WriteAccess(v) ==
    /\ tokenStore' = setAccess(tokenStore, v)
    /\ lastOp' = [op |-> "setAccess", v |-> v, r |-> None, before |-> tokenStore]
    /\ UNCHANGED <<pipelineVars, checkout, cartPage, uploadPage>>

\* tokenStore.refresh = v
WriteRefresh(v) ==
    /\ tokenStore' = setRefresh(tokenStore, v)
    /\ lastOp' = [op |-> "setRefresh", v |-> v, r |-> None, before |-> tokenStore]
    /\ UNCHANGED <<pipelineVars, checkout, cartPage, uploadPage>>

\* tokenStore.clear()
Clear ==
    /\ tokenStore' = clear(tokenStore)
    /\ lastOp' = [op |-> "clear", v |-> None, r |-> None, before |-> tokenStore]
    /\ UNCHANGED <<pipelineVars, checkout, cartPage, uploadPage>>

\* authService.login, the token endpoint answers 2xx
ServiceLoginOk(a, r) ==
    /\ tokenStore' = loginStore(tokenStore, a, r)
    /\ lastOp' = [op |-> "serviceLogin", v |-> a, r |-> r, before |-> tokenStore]
    /\ UNCHANGED <<pipelineVars, checkout, cartPage, uploadPage>>

\* authService.login, the call fails: the await throws before line 12
ServiceLoginFails ==
    /\ tokenStore' = tokenStore
    /\ lastOp' = [op |-> "serviceLoginFailed", v |-> None, r |-> None,
                  before |-> tokenStore]
    /\ UNCHANGED <<pipelineVars, checkout, cartPage, uploadPage>>

\* Login.onSubmit, the token endpoint answers 2xx
PageLoginOk(a, r) ==
    /\ tokenStore' = onSubmitStore(tokenStore, a, r)
    /\ lastOp' = [op |-> "pageLogin", v |-> a, r |-> r, before |-> tokenStore]
    /\ UNCHANGED <<pipelineVars, checkout, cartPage, uploadPage>>

\* Login.onSubmit, the call fails: the catch block sets error messages only
PageLoginFails ==
    /\ tokenStore' = tokenStore
    /\ lastOp' = [op |-> "pageLoginFailed", v |-> None, r |-> None,
                  before |-> tokenStore]
    /\ UNCHANGED <<pipelineVars, checkout, cartPage, uploadPage>>

StoreNext ==
    \/ \E v \in Written : WriteAccess(v)
    \/ \E v \in Written : WriteRefresh(v)
    \/ Clear
    \/ \E a, r \in Returned : ServiceLoginOk(a, r)
    \/ ServiceLoginFails
    \/ \E a, r \in Returned : PageLoginOk(a, r)
    \/ PageLoginFails

StoreSpec == StoreInit /\ [][StoreNext]_vars

\* ---- the Checkout page ----
Methods == {"cod", "paypal", "card", "esewa"}

CheckoutInit ==
    /\ Loaded
    /\ lastOp = NoOp
    /\ cartPage = CartShown([i \in CartItems |-> 0])
    /\ uploadPage = NoUpload
    /\ budget = 0
    /\ \E clientId \in BOOLEAN : checkout = Mounted(clientId)

\* one more event on the mounted page
CheckoutEvent == checkout.mounted /\ checkout.left > 0

Spend(c) == [c EXCEPT !.left = @ - 1]

\* the effect keeping paid as it was
PaidAfterEffect_Kept(c) == c.paid

\* lines 572-573: setPaid(false) when the effect runs with method paypal
PaidAfterEffect(c) == IF c.method = "paypal" THEN FALSE ELSE c.paid

\* lines 568-653, the effect of a render in which method or total changed,
\* up to its first await: the clean-up of the previous run sets cancelled,
\* the container of another method selection is gone with its buttons
PayPalEffect(c, methodChanged) ==
    [c EXCEPT !.paid = PaidAfterEffect(c),
              !.sdkPending = (c.method = "paypal" /\ c.clientId),
              !.buttons = IF methodChanged THEN FALSE ELSE @]

\* lines 527-543: the cart answer arrives; total and orderItems follow
CartLoaded(n, tot) ==
    /\ CheckoutEvent
    /\ ~checkout.cartLoaded
    /\ n = 0 => tot = 0
    /\ LET c == [Spend(checkout) EXCEPT !.cartLoaded = TRUE, !.items = n,
                                        !.total = tot]
       IN checkout' =
            IF tot # checkout.total
            THEN [PayPalEffect(c, FALSE) EXCEPT !.capturedSince = FALSE]
            ELSE c
    /\ UNCHANGED <<storeVars, pipelineVars, cartPage, uploadPage>>

\* lines 536-540: the cart call fails, cart stays null
CartLoadFails ==
    /\ CheckoutEvent
    /\ ~checkout.cartLoaded
    /\ checkout' = [Spend(checkout) EXCEPT !.cartLoaded = TRUE]
    /\ UNCHANGED <<storeVars, pipelineVars, cartPage, uploadPage>>

\* lines 728-743: a payment method radio button, then the effect
SelectMethod(m) ==
    /\ CheckoutEvent
    /\ m # checkout.method
    /\ LET c == [Spend(checkout) EXCEPT !.method = m]
       IN checkout' = [PayPalEffect(c, TRUE) EXCEPT
                         !.capturedSince = IF m = "paypal" THEN FALSE ELSE @]
    /\ UNCHANGED <<storeVars, pipelineVars, cartPage, uploadPage>>

\* lines 715-720: an address field is emptied or filled
EditAddress(ok) ==
    /\ CheckoutEvent
    /\ ok # checkout.addrOk
    /\ checkout' = [Spend(checkout) EXCEPT !.addrOk = ok]
    /\ UNCHANGED <<storeVars, pipelineVars, cartPage, uploadPage>>

\* lines 591-648: the script is there, the run was not cancelled, the
\* buttons are rendered with the total of that run
SdkLoaded ==
    /\ CheckoutEvent
    /\ checkout.sdkPending
    /\ checkout' = [Spend(checkout) EXCEPT !.sdkPending = FALSE,
                                           !.buttons = TRUE]
    /\ UNCHANGED <<storeVars, pipelineVars, cartPage, uploadPage>>

\* lines 592-595: the script cannot be loaded
SdkLoadFails ==
    /\ CheckoutEvent
    /\ checkout.sdkPending
    /\ checkout' = [Spend(checkout) EXCEPT !.sdkPending = FALSE]
    /\ UNCHANGED <<storeVars, pipelineVars, cartPage, uploadPage>>

\* lines 627-629: the buyer approves, onApprove awaits the capture
Approve ==
    /\ CheckoutEvent
    /\ checkout.buttons
    /\ checkout' = [Spend(checkout) EXCEPT !.capturing = @ + 1]
    /\ UNCHANGED <<storeVars, pipelineVars, cartPage, uploadPage>>

\* lines 630-633: the capture succeeds; cancelled is not looked at
CaptureOk ==
    /\ CheckoutEvent
    /\ checkout.capturing > 0
    /\ checkout' = [Spend(checkout) EXCEPT !.capturing = @ - 1,
                                           !.paid = TRUE,
                                           !.capturedSince = TRUE]
    /\ UNCHANGED <<storeVars, pipelineVars, cartPage, uploadPage>>

\* lines 634-637: the capture fails
CaptureFails ==
    /\ CheckoutEvent
    /\ checkout.capturing > 0
    /\ checkout' = [Spend(checkout) EXCEPT !.capturing = @ - 1,
                                           !.paid = FALSE]
    /\ UNCHANGED <<storeVars, pipelineVars, cartPage, uploadPage>>

\* lines 640-646: onError, onCancel
PayPalErrorOrCancel ==
    /\ CheckoutEvent
    /\ checkout.buttons
    /\ checkout' = [Spend(checkout) EXCEPT !.paid = FALSE]
    /\ UNCHANGED <<storeVars, pipelineVars, cartPage, uploadPage>>

\* lines 656-660
canPlace(c) ==
    /\ c.addrOk
    /\ c.items > 0
    /\ (c.method = "cod" \/ (c.method = "paypal" /\ c.paid))

\* lines 672-684: the body of the POST, with the state it was built from
OrderBody(c) ==
    [payment_method |-> IF c.method = "cod" THEN "cod" ELSE "paypal",
     paid |-> c.method = "paypal",
     addrOk |-> c.addrOk, items |-> c.items, method |-> c.method,
     paidState |-> c.paid, captured |-> c.capturedSince]

\* placing not looked at
NotPlacing_Ignored(c) == TRUE

\* line 664: ... || placing
NotPlacing(c) == ~c.placing

\* lines 663-685: Place Order up to the fetch.  History fields: inflight,
\* the POSTs not answered yet; clicks, the invocations of placeOrder
PlaceOrder ==
    /\ CheckoutEvent
    /\ canPlace(checkout)
    /\ NotPlacing(checkout)
    /\ checkout' = [Spend(checkout) EXCEPT
                      !.placing = TRUE,
                      !.inflight = @ + 1,
                      !.clicks = @ + 1,
                      !.orders = Append(@, OrderBody(checkout))]
    /\ UNCHANGED <<storeVars, pipelineVars, cartPage, uploadPage>>

\* line 664: if (!canPlace || placing) return
PlaceOrderReturns ==
    /\ CheckoutEvent
    /\ ~(canPlace(checkout) /\ NotPlacing(checkout))
    /\ checkout' = [Spend(checkout) EXCEPT !.clicks = @ + 1]
    /\ UNCHANGED <<storeVars, pipelineVars, cartPage, uploadPage>>

\* lines 692-697: the order is accepted, navigate leaves the page
OrderOk ==
    /\ CheckoutEvent
    /\ checkout.inflight > 0
    /\ checkout' = [Spend(checkout) EXCEPT !.placing = FALSE,
                                           !.inflight = @ - 1,
                                           !.accepted = @ + 1,
                                           !.mounted = FALSE]
    /\ UNCHANGED <<storeVars, pipelineVars, cartPage, uploadPage>>

\* lines 687-697: the order is refused or the call fails
OrderFails ==
    /\ CheckoutEvent
    /\ checkout.inflight > 0
    /\ checkout' = [Spend(checkout) EXCEPT !.placing = FALSE,
                                           !.inflight = @ - 1]
    /\ UNCHANGED <<storeVars, pipelineVars, cartPage, uploadPage>>

CheckoutNext ==
    \/ \E n \in 0..MaxTotal, tot \in 0..MaxTotal : CartLoaded(n, tot)
    \/ CartLoadFails
    \/ \E m \in Methods : SelectMethod(m)
    \/ \E ok \in BOOLEAN : EditAddress(ok)
    \/ SdkLoaded
    \/ SdkLoadFails
    \/ Approve
    \/ CaptureOk
    \/ CaptureFails
    \/ PayPalErrorOrCancel
    \/ PlaceOrder
    \/ PlaceOrderReturns
    \/ OrderOk
    \/ OrderFails

CheckoutSpec == CheckoutInit /\ [][CheckoutNext]_vars

\* the orders posted so far
Posted == {checkout.orders[i] : i \in 1..Len(checkout.orders)}

\* ---- the Cart page ----
CartInit ==
    /\ Loaded
    /\ lastOp = NoOp
    /\ checkout = Mounted(TRUE)
    /\ uploadPage = NoUpload
    /\ budget = 0
    /\ \E stock \in [CartItems -> {0, One * MaxQty}] : cartPage = CartShown(stock)

\* what the quantity controls pass as nextQty: the text of the input (a
\* number, possibly negative or fractional, nothing, or no number at all)
\* or the number it.qty - 1 / it.qty + 1 of the buttons
Typed ==
    [text : {"number"}, n : {0 - One, 0, One, One + 1, One + One, One + One + One}]
    \cup [text : {"empty", "junk"}, n : {0}]

\* Number(nextQty)
ToNumber(in) ==
    CASE in.text = "junk" -> NaN
      [] in.text = "empty" -> 0
      [] OTHER -> in.n

Max(a, b) == IF a >= b THEN a ELSE b
Min(a, b) == IF a <= b THEN a ELSE b

\* lines 208-209: Math.max(1, Number(nextQty) || 1), at most maxQty if > 0
desired(maxQty, nextQty) ==
    LET x == ToNumber(nextQty)
        d == Max(One, IF x = NaN \/ x = 0 THEN One ELSE x)
    IN IF maxQty > 0 THEN Min(d, maxQty) ELSE d

\* one more change may be made on the page
CartEvent == cartPage.left > 0

\* a cart operation: prevQty and prevCart are what the handler remembered,
\* phase is sent / ok / failed / done, snap what the server held after it,
\* withItems whether the answer carried the cart (what the handler
\* remembered is dropped from the record once the answer was handled)
CartOp(kind, i, d, c) ==
    [kind |-> kind, item |-> i, desired |-> d, prevQty |-> c.display[i],
     prevCart |-> c.display, phase |-> "sent", snap |-> c.server,
     withItems |-> FALSE]

\* lines 206-215: onQtyChange up to the await
QtyChange(i, in) ==
    /\ CartEvent
    /\ cartPage.display[i] # 0
    /\ LET d == desired(cartPage.maxQty[i], in)
       IN cartPage' = [cartPage EXCEPT
                         !.left = @ - 1,
                         !.error = FALSE,
                         !.display[i] = d,
                         !.ops = Append(@, CartOp("qty", i, d, cartPage))]
    /\ UNCHANGED <<storeVars, pipelineVars, checkout, uploadPage>>

\* lines 226-231: onRemove up to the await
Remove(i) ==
    /\ CartEvent
    /\ cartPage.display[i] # 0
    /\ cartPage' = [cartPage EXCEPT
                      !.left = @ - 1,
                      !.error = FALSE,
                      !.display[i] = 0,
                      !.ops = Append(@, CartOp("remove", i, 0, cartPage))]
    /\ UNCHANGED <<storeVars, pipelineVars, checkout, uploadPage>>

\* operation k is the oldest one the server has not handled: the server
\* handles the requests of a page in the order they were sent
NextForServer(k) ==
    /\ cartPage.ops[k].phase = "sent"
    /\ \A j \in 1..(k - 1) : cartPage.ops[j].phase # "sent"

\* the server applies operation k and answers 2xx, with or without the cart
ServerApplies(k, withItems) ==
    /\ NextForServer(k)
    /\ cartPage.server[cartPage.ops[k].item] # 0
    /\ LET op == cartPage.ops[k]
           held == [cartPage.server EXCEPT ![op.item] = op.desired]
       IN cartPage' = [cartPage EXCEPT
                         !.server = held,
                         !.ops[k].phase = "ok",
                         !.ops[k].snap = held,
                         !.ops[k].withItems = withItems]
    /\ UNCHANGED <<storeVars, pipelineVars, checkout, uploadPage>>

\* the server refuses operation k
ServerRefuses(k) ==
    /\ NextForServer(k)
    /\ cartPage' = [cartPage EXCEPT !.ops[k].phase = "failed"]
    /\ UNCHANGED <<storeVars, pipelineVars, checkout, uploadPage>>

\* lines 188-196 with the transform of line 218
Restored(display, op) ==
    [display EXCEPT ![op.item] = IF @ # 0 THEN op.prevQty ELSE @]

\* lines 216-223 and 232-236: the answer to operation k reaches the page
CartAnswer(k) ==
    /\ cartPage.ops[k].phase \in {"ok", "failed"}
    /\ LET op == cartPage.ops[k]
       IN cartPage' = [cartPage EXCEPT
            !.ops[k] = [CartOp(op.kind, op.item, op.desired, CartShown(cartPage.maxQty))
                        EXCEPT !.phase = "done"],
            !.error = IF op.phase = "failed" THEN TRUE ELSE @,
            !.display =
                CASE op.phase = "ok" /\ op.withItems -> op.snap
                  [] op.phase = "ok" /\ ~op.withItems -> @
                  [] op.phase = "failed" /\ op.kind = "qty" -> Restored(@, op)
                  [] OTHER -> op.prevCart]
    /\ UNCHANGED <<storeVars, pipelineVars, checkout, uploadPage>>

CartNext ==
    \/ \E i \in CartItems, in \in Typed : QtyChange(i, in)
    \/ \E i \in CartItems : Remove(i)
    \/ \E k \in 1..Len(cartPage.ops), w \in BOOLEAN : ServerApplies(k, w)
    \/ \E k \in 1..Len(cartPage.ops) : ServerRefuses(k)
    \/ \E k \in 1..Len(cartPage.ops) : CartAnswer(k)

CartSpec == CartInit /\ [][CartNext]_vars

\* every cart operation made so far has been answered
CartSettled == \A k \in 1..Len(cartPage.ops) : cartPage.ops[k].phase = "done"

\* ---- the Upload page ----
\* what localStorage "access" may hold: nothing, a text that is no JWT, or
\* a JWT whose payload lacks has_document or has it false or true
NoJwt == [payload |-> "missing", has_document |-> "absent"]

StoredJwts ==
    {NoJwt, [payload |-> "garbled", has_document |-> "absent"]}
    \cup [payload : {"json"}, has_document : {"absent", "false", "true"}]

\* lines 446-456: null for a missing payload and for one that does not parse
decodeJwtPayload(token) ==
    IF token.payload = "json"
    THEN [null |-> FALSE, has_document |-> token.has_document]
    ELSE [null |-> TRUE, has_document |-> "absent"]

\* line 478: !!claims?.has_document
canLinkProduct(claims) == ~claims.null /\ claims.has_document = "true"

\* lines 460-478: the page as mounted, claims decoded once from the token
\* stored then; stored is what localStorage "access" holds now
UploadMounted(token) ==
    [mounted |-> TRUE, stored |-> token, claims |-> decodeJwtPayload(token),
     linkProduct |-> FALSE, file |-> FALSE, product |-> FALSE,
     posts |-> <<>>, left |-> MaxUploadEvents]

UploadInit ==
    /\ Loaded
    /\ lastOp = NoOp
    /\ checkout = Mounted(TRUE)
    /\ cartPage = CartShown([i \in CartItems |-> 0])
    /\ budget = 0
    /\ \E token \in StoredJwts : uploadPage = UploadMounted(token)

\* one more event on the mounted page
UploadEvent == uploadPage.mounted /\ uploadPage.left > 0

\* lines 481-483: the effect forcing the toggle back
LinkAfterEffect(can, link) == IF ~can /\ link THEN FALSE ELSE link

\* line 687: the toggle is set, then the effect runs
ToggleLink(v) ==
    /\ UploadEvent
    /\ uploadPage' = [uploadPage EXCEPT
          !.left = @ - 1,
          !.linkProduct = LinkAfterEffect(canLinkProduct(uploadPage.claims), v)]
    /\ UNCHANGED <<storeVars, pipelineVars, checkout, cartPage>>

\* lines 486-504: a media file is chosen
PickFile ==
    /\ UploadEvent
    /\ ~uploadPage.file
    /\ uploadPage' = [uploadPage EXCEPT !.left = @ - 1, !.file = TRUE]
    /\ UNCHANGED <<storeVars, pipelineVars, checkout, cartPage>>

\* the product fields are filled in
FillProduct ==
    /\ UploadEvent
    /\ ~uploadPage.product
    /\ uploadPage' = [uploadPage EXCEPT !.left = @ - 1, !.product = TRUE]
    /\ UNCHANGED <<storeVars, pipelineVars, checkout, cartPage>>

\* localStorage "access" is written while the page is mounted: a token
\* refresh, or a logout or login in another tab
StoredTokenChanges(token) ==
    /\ UploadEvent
    /\ token # uploadPage.stored
    /\ uploadPage' = [uploadPage EXCEPT !.left = @ - 1, !.stored = token]
    /\ UNCHANGED <<storeVars, pipelineVars, checkout, cartPage>>

\* lines 539-557: the form data and the Authorization header of the post
UploadBody(u) ==
    LET effectiveLinkProduct == canLinkProduct(u.claims) /\ u.linkProduct
    IN [link_product |-> effectiveLinkProduct,
        product_fields |-> effectiveLinkProduct /\ u.product,
        authorization |-> u.stored]

\* lines 527-575: handleSubmit up to the post
Submit ==
    /\ UploadEvent
    /\ uploadPage.file
    /\ uploadPage' = [uploadPage EXCEPT !.left = @ - 1,
                                        !.posts = Append(@, UploadBody(uploadPage))]
    /\ UNCHANGED <<storeVars, pipelineVars, checkout, cartPage>>

\* lines 577-580: the post is accepted, reset() and navigate("/")
Uploaded ==
    /\ UploadEvent
    /\ uploadPage.posts # <<>>
    /\ uploadPage' = [uploadPage EXCEPT !.left = @ - 1, !.mounted = FALSE,
                                        !.linkProduct = FALSE, !.file = FALSE,
                                        !.product = FALSE]
    /\ UNCHANGED <<storeVars, pipelineVars, checkout, cartPage>>

UploadNext ==
    \/ \E v \in BOOLEAN : ToggleLink(v)
    \/ PickFile
    \/ FillProduct
    \/ \E token \in StoredJwts : StoredTokenChanges(token)
    \/ Submit
    \/ Uploaded

UploadSpec == UploadInit /\ [][UploadNext]_vars

\* the posts submitted so far
Submitted == {uploadPage.posts[i] : i \in 1..Len(uploadPage.posts)}

\* ---- properties ----
RefreshErrors == {"eRefresh", "eNoAccess"}

\* the send handled a 401 in this step
Got401(s) == /\ sends[s].st = "inflight"
             /\ sends'[s].st # "inflight"
             /\ issued401' = issued401 + 1

\* the request was handed to a refresh cycle (lines 65-95)
Handed(s) == sends[s].via \in {"initiator", "queued"}

\* the replays made by the callback of send s
ReplaysOf(s) == {t \in Sends : sends[t].parent = s}

\* C1: at most one refresh network call is in flight at any time, and a 401
\* on a not-yet-retried request (refresh token stored) that arrives while a
\* refresh call is in flight is appended to the wait queue without a new
\* refresh call being issued.
C1_SingleFlight ==
    /\ [](Cardinality(RefreshInFlight) <= 1)
    /\ [][\A s \in Sends :
            (/\ Got401(s)
             /\ ~sends[s].retried
             /\ tokenStore.refresh # None
             /\ RefreshInFlight # {})
            => /\ cycles' = cycles
               /\ subscribers' = Append(subscribers, s)
               /\ sends'[s].st = "queued"]_vars

C1_Witness ==
    \E s \in Sends :
        /\ sends[s].via = "queued"
        /\ sends[s].st = "queued"
        /\ Cardinality(RefreshInFlight) = 1
        /\ Len(subscribers) = 2

\* C2: the promise of a request handed to a refresh cycle is settled at most
\* once, and with the outcome of that cycle: the refresh error if the cycle
\* failed, and whatever its replay settles with if the cycle succeeded; the
\* promises locked in to it (up to the caller's) settle with the same outcome.
C2_SettledOnceByCycle ==
    \A s \in Sends :
        /\ sends[s].settles <= 1
        /\ Handed(s) =>
            /\ sends[s].hand \in Cycles
            /\ cycles[sends[s].hand].st = "inflight" => sends[s].out = "pending"
            /\ cycles[sends[s].hand].st \in RefreshErrors
                  => sends[s].out = cycles[sends[s].hand].st
            /\ cycles[sends[s].hand].st = "ok"
                  => \E t \in ReplaysOf(s) :
                        /\ sends[t].linked
                        /\ sends[t].sentCyc = sends[s].hand
                        /\ sends[t].out = sends[s].out
            /\ \A a \in ChainOf(sends, s) :
                  sends[a].out = sends[s].out /\ sends[a].settles <= 1

C2_Witness ==
    \E s \in Sends :
        /\ sends[s].via = "queued"
        /\ cycles[sends[s].hand].st = "ok"
        /\ sends[s].out = "eOther"
        /\ sends[s].settles = 1
        /\ \E t \in ReplaysOf(s) : sends[t].linked /\ sends[t].out = "eOther"

\* C3: when a refresh cycle ends in failure the wait queue is emptied, so no
\* continuation of a failed cycle is invoked by a later cycle: every replay
\* is sent by a callback whose promise was still pending, and no request
\* whose caller was already rejected with the refresh error is sent again.
C3_NoReplayAfterFailedCycle ==
    \A t \in Sends :
        sends[t].parent # None
        => /\ sends[t].linked
           /\ cycles[sends[sends[t].parent].hand].st \notin RefreshErrors

\* C4: every original request is replayed at most once: each request handed
\* to a refresh cycle is marked retried, and a replay that receives 401 is
\* rejected without entering the refresh path again.
C4_ReplayedAtMostOnce ==
    /\ \A s \in Sends : Handed(s) => sends[s].retried
    /\ \A t \in Sends : sends[t].parent # None => ~Handed(t)
    /\ \A r \in 1..started :
          Cardinality({t \in Sends : sends[t].req = r /\ sends[t].parent # None}) <= 1

\* the requests waiting on cycle c
Waiters(c) == {s \in Sends : sends[s].hand = c /\ sends[s].st = "queued"}

\* the refresh call c fails in this step
CycleFails(c) == cycles[c].st = "inflight" /\ cycles'[c].st \in RefreshErrors

\* C5: when the refresh call fails, every request waiting on that cycle (the
\* one that started it included) and the promises locked in to it are
\* rejected with the refresh error, not with the 401 error, and the token
\* store then holds neither token.
C5_FailureFanOut ==
    [][\A c \in Cycles :
          CycleFails(c)
          => /\ tokenStore' = EmptyStore
             /\ cycles[c].by \in Waiters(c)
             /\ \A s \in Waiters(c) : \A a \in ChainOf(sends, s) :
                   /\ sends'[a].out = cycles'[c].st
                   /\ sends'[a].out # "e401"]_vars

C5_Witness ==
    /\ Len(cycles) = 1
    /\ cycles[1].st = "eRefresh"
    /\ tokenStore = EmptyStore
    /\ \E s, t \in Sends :
          /\ sends[s].via = "initiator" /\ sends[t].via = "queued"
          /\ sends[s].out = "eRefresh" /\ sends[t].out = "eRefresh"

\* the refresh call c succeeds in this step
CycleSucceeds(c) == cycles[c].st = "inflight" /\ cycles'[c].st = "ok"

\* C6: after a successful refresh every request waiting on the cycle is
\* sent again with the access token the refresh returned, and no replay
\* carries the token its request was rejected with.
C6_ReplayCarriesNewToken ==
    /\ [](\A t \in Sends :
            sends[t].sentCyc # None
            => /\ sends[t].hdr = cycles[sends[t].sentCyc].newAccess
               /\ sends[t].hdr # None
               /\ sends[t].hdr # sends[sends[t].parent].hdr)
    /\ [][\A c \in Cycles :
            CycleSucceeds(c)
            => \A s \in Waiters(c) :
                  \E t \in (Len(sends) + 1)..Len(sends') :
                     /\ sends'[t].parent = s
                     /\ sends'[t].st = "inflight"
                     /\ sends'[t].hdr = cycles'[c].newAccess]_vars

C6_Witness ==
    \E s, t \in Sends :
        /\ s # t
        /\ sends[s].sentCyc = 1 /\ sends[t].sentCyc = 1
        /\ sends[sends[s].parent].hdr = 1 /\ sends[sends[t].parent].hdr = 1
        /\ sends[s].hdr = 2 /\ sends[t].hdr = 2
        /\ sends[sends[s].parent].via = "initiator"
        /\ sends[sends[t].parent].via = "queued"

\* the first attempts that were sent before any refresh call was issued,
\* received 401 and entered the refresh path
Batch == {s \in Sends : /\ sends[s].parent = None
                        /\ sends[s].epoch = 0
                        /\ Handed(s)}

\* N >= 2 requests were issued, all of them are in the batch, and no other
\* request received 401
AllConcurrent401 ==
    /\ started >= 2
    /\ Cardinality(Batch) = started
    /\ issued401 = started

\* C7 as stated: from an idle coordinator, N concurrent requests that
\* all receive 401 cause exactly one refresh call in total, whatever the
\* order of the 401 responses and the refresh response.
C7_OneRefreshAnyOrder ==
    AllConcurrent401 => Len(cycles) = 1

\* C7 amended: when all the 401 responses arrive before the refresh response
\* (no refresh call had completed when they were handled), exactly one
\* refresh call is issued, one request starts it and the others are queued
\* behind it.
C7_OneRefreshWhileInFlight ==
    LET Early == {s \in Batch : sends[s].seen = 0}
    IN /\ Cardinality({s \in Early : sends[s].via = "initiator"}) <= 1
       /\ \A s \in Early : sends[s].hand = 1
       /\ (AllConcurrent401 /\ Early = Batch)
             => /\ Len(cycles) = 1
                /\ Cardinality({s \in Batch : sends[s].via = "queued"}) = started - 1

C7_Witness ==
    /\ AllConcurrent401
    /\ \A s \in Batch : sends[s].seen = 0
    /\ Len(cycles) = 1
    /\ Len(subscribers) = started

\* C8: under FairSpec (the refresh call and every call that was sent are
\* eventually answered) every request that entered the refresh path is
\* eventually settled, together with the promises locked in to it up to its
\* caller's, and stays settled: none is left pending forever.  (The sends of
\* a behaviour are finitely many and a settled promise stays settled, so
\* this is "handed leads to settled" for every send.)
C8_WaitersEventuallySettled ==
    <>[](\A s \in Sends :
            Handed(s) => \A a \in ChainOf(sends, s) : sends[a].out # "pending")

C8_Witness ==
    \E s, t \in Sends :
        /\ sends[s].via = "queued" /\ sends[t].via = "initiator"
        /\ sends[s].hand = sends[t].hand
        /\ cycles[sends[s].hand].st = "ok"
        /\ sends[s].out = "ok" /\ sends[t].out = "ok"

\* C9: a not-yet-retried request that receives 401 while no refresh token is
\* stored is rejected at once with its 401 error; no refresh call is issued,
\* nothing is queued or sent again, and the token store then holds neither
\* token.
C9_NoRefreshTokenPath ==
    [][\A s \in Sends :
          (Got401(s) /\ ~sends[s].retried /\ tokenStore.refresh = None)
          => /\ \A a \in ChainOf(sends, s) : sends'[a].out = "e401"
             /\ cycles' = cycles
             /\ isRefreshing' = isRefreshing
             /\ subscribers' = subscribers
             /\ Len(sends') = Len(sends)
             /\ tokenStore' = EmptyStore]_vars

C9_Witness ==
    \E s \in Sends :
        /\ sends[s].via = "noRefresh"
        /\ sends[s].hdr # None
        /\ sends[s].out = "e401"
        /\ sends[s].seen = 1
        /\ cycles[1].st = "ok"
        /\ tokenStore = EmptyStore

\* C10: after a refresh failure and until a login stores credentials, no
\* refresh call is issued or in flight, and every request that receives 401
\* is rejected with that 401 without joining the wait queue.
C10_FailedRefreshIsTerminal ==
    /\ [](failedSinceLogin => RefreshInFlight = {} /\ tokenStore.refresh = None)
    /\ [][(failedSinceLogin /\ failedSinceLogin')
            => /\ cycles' = cycles
               /\ subscribers' = subscribers
               /\ \A s \in Sends :
                     Got401(s) => \A a \in ChainOf(sends, s) : sends'[a].out = "e401"]_vars

C10_Witness ==
    /\ failedSinceLogin
    /\ Len(cycles) = 1
    /\ cycles[1].st = "eRefresh"
    /\ \E s \in Sends :
          /\ sends[s].seen = 1
          /\ sends[s].via = "noRefresh"
          /\ sends[s].out = "e401"

C12_RefreshSuccessStore ==
    [][\A c \in Cycles :
          CycleSucceeds(c)
          => /\ cycles'[c].newAccess # None
             /\ tokenStore'.access = cycles'[c].newAccess
             /\ tokenStore'.refresh = tokenStore.refresh]_vars

\* login A1/R1, refresh returns A2: the store holds A2/R1
C12_Witness ==
    /\ Len(cycles) = 1
    /\ cycles[1].st = "ok"
    /\ cycles[1].newAccess = 2
    /\ logins = 0
    /\ tokenStore = [access |-> 2, refresh |-> 1]

\* the send received an answer other than 401 in this step
GotOther(s) == /\ sends[s].resp = "none"
               /\ sends'[s].resp \in {"2xx", "err"}

\* C13: a successful response, an error response with a status other than
\* 401 and a network failure reach the caller as they are (a success
\* resolves, a failure rejects, also through the promises locked in to the
\* request's), and handling them changes neither the token store, nor the
\* refresh flag, nor the wait queue, and issues no refresh call or replay.
C13_PassThrough ==
    [][\A s \in Sends :
          GotOther(s)
          => /\ \A a \in ChainOf(sends, s) :
                   sends'[a].out = IF sends'[s].resp = "2xx" THEN "ok" ELSE "eOther"
             /\ tokenStore' = tokenStore
             /\ isRefreshing' = isRefreshing
             /\ refreshPromise' = refreshPromise
             /\ subscribers' = subscribers
             /\ cycles' = cycles
             /\ Len(sends') = Len(sends)]_vars

C13_Witness ==
    \E s, t \in Sends :
        /\ sends[s].resp = "err" /\ sends[s].out = "eOther"
        /\ sends[t].resp = "2xx" /\ sends[t].out = "ok"
        /\ isRefreshing
        /\ Len(subscribers) = 1
        /\ tokenStore.access # None

\* C14: a 401 on a request already marked retried is rejected with that 401
\* and nothing else happens: the token store keeps its tokens, no refresh
\* call is issued, nothing is queued or sent.
C14_RetryExhausted ==
    [][\A s \in Sends :
          (Got401(s) /\ sends[s].retried)
          => /\ \A a \in ChainOf(sends, s) : sends'[a].out = "e401"
             /\ tokenStore' = tokenStore
             /\ isRefreshing' = isRefreshing
             /\ subscribers' = subscribers
             /\ cycles' = cycles
             /\ Len(sends') = Len(sends)]_vars

C14_Witness ==
    \E s \in Sends :
        /\ sends[s].via = "exhausted"
        /\ sends[s].out = "e401"
        /\ sends[sends[s].parent].via = "initiator"
        /\ sends[sends[s].parent].out = "e401"
        /\ tokenStore.access # None /\ tokenStore.refresh # None

\* C15: every request that is sent, a first attempt or a replay, carries
\* the access token the token store holds when it is sent, and carries no
\* Authorization header when the store holds none then.
C15_HeaderFromStore ==
    [][\A t \in (Len(sends) + 1)..Len(sends') :
          sends'[t].hdr = tokenStore'.access]_vars

C15_Witness ==
    \E s, t, u \in Sends :
        /\ sends[s].parent = None /\ sends[s].hdr = None
        /\ sends[t].parent = None /\ sends[t].hdr # None
        /\ sends[u].parent # None /\ sends[u].hdr \notin {None, sends[t].hdr}

\* C16: when a refresh cycle succeeds, the requests waiting on it are
\* notified, and their replays sent, in the order in which they were put in
\* the queue, the request that started the cycle first.
C16_NotifiedInQueueOrder ==
    [][\A c \in Cycles :
          CycleSucceeds(c)
          => LET New == (Len(sends) + 1)..Len(sends')
                 Own == {t \in New : sends[sends'[t].parent].hand = c}
             IN /\ \A s \in Waiters(c) : \E t \in Own : sends'[t].parent = s
                /\ \A t, u \in Own :
                      t < u => sends[sends'[t].parent].enq < sends[sends'[u].parent].enq
                /\ \A t \in Own :
                      sends'[t].parent # cycles[c].by
                      => \E u \in Own : u < t /\ sends'[u].parent = cycles[c].by]_vars

C16_Witness ==
    \E t, u \in Sends :
        /\ t < u
        /\ sends[t].sentCyc = 1 /\ sends[u].sentCyc = 1
        /\ sends[sends[t].parent].via = "initiator"
        /\ sends[sends[u].parent].via = "queued"
        /\ sends[sends[t].parent].enq < sends[sends[u].parent].enq
        /\ sends[t].parent > sends[u].parent

\* C20: once logout has run, the token store holds neither token until the
\* next login; no step of the pipeline writes a token into it.
C20_LoggedOutStoreStaysEmpty ==
    loggedOut => tokenStore = EmptyStore

\* C17: token store round trip.  Reading a token after writing a token
\* value returns that value; after writing null (or any other falsy value)
\* it returns null; writing one token leaves the other as it was; after
\* clear() both reads return null.
C17_StoreRoundTrip ==
    /\ lastOp.op = "setAccess"
          => /\ getAccess(tokenStore) = IF lastOp.v \in 1..MaxTok THEN lastOp.v ELSE None
             /\ getRefresh(tokenStore) = getRefresh(lastOp.before)
    /\ lastOp.op = "setRefresh"
          => /\ getRefresh(tokenStore) = IF lastOp.v \in 1..MaxTok THEN lastOp.v ELSE None
             /\ getAccess(tokenStore) = getAccess(lastOp.before)
    /\ lastOp.op = "clear"
          => getAccess(tokenStore) = None /\ getRefresh(tokenStore) = None

C17_Witness ==
    /\ lastOp.op = "clear"
    /\ getAccess(lastOp.before) = 1
    /\ getRefresh(lastOp.before) = MaxTok
    /\ tokenStore = EmptyStore

\* C18: a successful login leaves the token store holding exactly the
\* tokens the token endpoint returned, and a failed login leaves it as it
\* was, for authService.login and for the login page alike.
C18_LoginReplacesSession ==
    /\ lastOp.op \in {"serviceLogin", "pageLogin"}
          => tokenStore = [access |-> lastOp.v, refresh |-> lastOp.r]
    /\ lastOp.op \in {"serviceLoginFailed", "pageLoginFailed"}
          => tokenStore = lastOp.before

Replays == {t \in Sends : sends[t].parent # None}

\* C21: against a server that answers 401 to every business request, with
\* a refresh endpoint that always succeeds, N original requests cause at
\* most N refresh calls and at most N(N+1)/2 replays, the number of 401
\* answers stays below the cap of the model, and every request, with the
\* promises locked in to it up to its caller's, is eventually rejected with
\* the 401 error and stays rejected.
C21_NoRefreshLoop ==
    /\ [](/\ Len(cycles) <= started
          /\ 2 * Cardinality(Replays) <= started * (started + 1)
          /\ issued401 < Loop401Cap)
    /\ <>[](\A s \in Sends : sends[s].out = "e401")

\* N requests, N refresh calls, every original waited on the first one
C21_Witness ==
    /\ started = MaxLoopRequests
    /\ Len(cycles) = MaxLoopRequests
    /\ RefreshInFlight = {}
    /\ \A s \in Sends : sends[s].parent = None => sends[s].hand = 1
    /\ \A s \in Sends : sends[s].out = "e401"

\* the refresh call c is answered 2xx without an access token in this step
AnsweredNoAccess(c) == cycles[c].answer = "none" /\ cycles'[c].answer = "noAccess"

\* C22: a 2xx refresh answer without an access token ends the cycle as a
\* failure: the token store then holds neither token, nothing is sent
\* again, the wait queue is not flushed, and every request waiting on the
\* cycle, with the promises locked in to it, is rejected with the error
\* "No access token in refresh response".
C22_NoAccessIsFailure ==
    [][\A c \in Cycles :
          AnsweredNoAccess(c)
          => /\ tokenStore' = EmptyStore
             /\ Len(sends') = Len(sends)
             /\ cycles'[c].st \in RefreshErrors
             /\ ~isRefreshing' /\ refreshPromise' = None
             /\ cycles[c].by \in Waiters(c)
             /\ \A s \in Waiters(c) : \A a \in ChainOf(sends, s) :
                   sends'[a].out = "eNoAccess"]_vars

C22_Witness ==
    /\ Len(cycles) = 1
    /\ cycles[1].answer = "noAccess"
    /\ tokenStore = EmptyStore
    /\ Len(sends) = 2
    /\ \E s, t \in Sends :
          /\ sends[s].via = "initiator" /\ sends[t].via = "queued"
          /\ sends[s].out = "eNoAccess" /\ sends[t].out = "eNoAccess"

\* C23: the failure of a refresh call issued before the latest login leaves
\* the tokens that login stored as they are.
C23_FailureSparesNewSession ==
    [][\A c \in Cycles :
          (CycleFails(c) /\ cycles[c].session < logins /\ ~loggedOut)
          => tokenStore' = tokenStore]_vars

\* C24: at most one order POST of a Checkout is unanswered at any time,
\* placing is true exactly while one is, an invocation of placeOrder made
\* meanwhile sends nothing, and at most one order is accepted.
C24_OneOrderInFlight ==
    /\ [](/\ checkout.inflight <= 1
          /\ checkout.placing <=> checkout.inflight = 1
          /\ checkout.accepted <= 1)
    /\ [][(checkout.inflight > 0 /\ checkout'.clicks = checkout.clicks + 1)
            => checkout'.orders = checkout.orders]_vars

\* placeOrder was invoked while the first POST was unanswered, and the
\* order was placed again after that POST had failed
C24_Witness ==
    /\ checkout.clicks = 3
    /\ Len(checkout.orders) = 2
    /\ checkout.inflight = 1
    /\ checkout.placing

\* C28: when a 401 handler starts, isRefreshing is true exactly when
\* refreshPromise holds a promise, and that promise is the one of the
\* refresh call in flight; a request queued behind a refresh in flight has
\* its reject attached to the promise of that call.
C28_FlagAndPromiseAgree ==
    [][\A s \in Sends :
          Got401(s)
          => /\ isRefreshing <=> refreshPromise # None
             /\ isRefreshing => RefreshInFlight = {refreshPromise}
             /\ sends'[s].via = "queued"
                   => /\ sends'[s].cyc = refreshPromise
                      /\ sends'[s].cyc = sends'[s].hand
                      /\ cycles'[sends'[s].cyc].st = "inflight"]_vars

\* a request was queued behind the first refresh call with its reject
\* attached to it, the call succeeded, and the coordinator is idle again
C28_Witness ==
    /\ Len(cycles) = 1
    /\ cycles[1].st = "ok"
    /\ ~isRefreshing /\ refreshPromise = None /\ finallyPending = None
    /\ \E s \in Sends :
          /\ sends[s].via = "queued"
          /\ sends[s].st = "replayed"
          /\ sends[s].cyc = 1

\* C25: once every cart operation has been answered, the cart shown is the
\* cart the server holds, also when operations on the same item overlapped.
C25_SettledCartMatchesServer ==
    CartSettled => cartPage.display = cartPage.server

\* C26: the quantity onQtyChange shows and sends is a whole number, at
\* least 1, and at most the stock of the product where the stock is known.
C26_QuantityInRange ==
    \A k \in 1..Len(cartPage.ops) :
        cartPage.ops[k].kind = "qty"
        => LET op == cartPage.ops[k]
           IN /\ op.desired % One = 0
              /\ op.desired >= One
              /\ cartPage.maxQty[op.item] > 0 => op.desired <= cartPage.maxQty[op.item]

\* C27: a post is submitted with link_product = true, or with product
\* fields, only if the token stored when it is submitted decodes to claims
\* with a truthy has_document; and while the stored token is missing,
\* undecodable or unverified the linkProduct toggle is off.
C27_LinkOnlyWhenVerified ==
    /\ \A p \in Submitted :
          (p.link_product \/ p.product_fields)
          => canLinkProduct(decodeJwtPayload(p.authorization))
    /\ (uploadPage.mounted /\ uploadPage.linkProduct)
          => canLinkProduct(decodeJwtPayload(uploadPage.stored))

====
